---- MODULE Spec2Model ----
(***************************************************************************)
(* A model of the jhub-apps control-plane service:                         *)
(*   - the Authentication Gate   (jhub_apps/service/security.py),          *)
(*   - the Command Synthesizer   (jhub_apps/spawner/spawner_creation.py,   *)
(*     known here through tests_unit/test_custom_command.py),              *)
(*   - the Repository Configuration Loader                                 *)
(*     (jhub_apps/service/app_from_git.py).                                *)
(* The three components share no state.  A behaviour runs one request of   *)
(* one component; the other two stay "off".  The extraction of the         *)
(* application configuration from the declared project variables is a pure *)
(* function of the loader; it is run on its own over bounded inputs.       *)
(*                                                                         *)
(* Python strings that the code inspects character by character (URLs,     *)
(* refs) are sequences of one-character strings.  Command lines are        *)
(* sequences of words.  Python's None is the string None below.            *)
(***************************************************************************)
EXTENDS Integers, Sequences, FiniteSets, TLC

VARIABLES
    access_scopes,   \* security.py 38-42: the module-level AccessPolicy (a list)
    authPc,          \* "off" | "ready" | "awaiting" | "done"
    request,         \* the credentials the HTTP request carries
    token,           \* get_current_user's local variable token
    exchanges,       \* the bearer tokens sent to the hub's GET /user, in order
    hubResp,         \* the hub's response to the exchange
    authResult,      \* what get_current_user returned or raised
    synthPc,         \* "off" | "ready" | "done"
    user_options,    \* the spawner's user_options
    command_args,    \* what _get_app_command_args returned
    synthError,      \* None or the error it raised
    gitPc,           \* "off" | "ready" | "tempdir" | "cloned" | "checked" | "yaml" | "done"
    repository,      \* the Repository descriptor {url, ref, config_directory}
    world,           \* what exists at the remote: repository, ref, directories
    tempDirExists,   \* whether the TemporaryDirectory is on disk
    tempDirAcquired, \* whether the call ever created a TemporaryDirectory
    cloneCalls,      \* the (url, branch) pairs git.Repo.clone_from was called with
    cloneOutcome,    \* how the last clone_from call ended
    projectVars,     \* the variables of the conda-project file that was read
    projectDir,      \* the directory CondaProject was opened on (a path in the clone)
    gitStatus,       \* the HTTP status the call ended with (200: returned)
    endedAt,         \* the step that ended the call
    extractPc,       \* "off" | "declared" | "extracted" | "built"
    conda_project_variables, \* conda_project_yaml.variables, in the file's order
    jhub_apps_config_dict,   \* what the extraction returned
    app_config_kwargs        \* the keyword arguments JHubAppConfig is built from

authVars == <<access_scopes, authPc, request, token, exchanges, hubResp, authResult>>
synthVars == <<synthPc, user_options, command_args, synthError>>
gitVars == <<gitPc, repository, world, tempDirExists, tempDirAcquired, cloneCalls,
             cloneOutcome, projectVars, projectDir, gitStatus, endedAt>>
extractVars == <<extractPc, conda_project_variables, jhub_apps_config_dict,
                app_config_kwargs>>
vars == <<authVars, synthVars, gitVars, extractVars>>

None == "<None>"

\* All sequences over S of length at most n.
SeqsUpTo(S, n) == UNION {[1..k -> S] : k \in 0..n}

Range(s) == {s[i] : i \in DOMAIN s}

\* Python's  sub in s  for strings as sequences: sub occurs as a contiguous run.
Contains(s, sub) ==
    \E i \in 0..(Len(s) - Len(sub)) : \A j \in 1..Len(sub) : s[i + j] = sub[j]

(***************************************************************************)
(*                         AUTHENTICATION GATE                             *)
(***************************************************************************)

\* Bounds of the authentication model.
MaxPolicyLen == 2

Scopes == {"access:services", "read:users"}

RawTokens == {"tA", "tB"}

\* A hub token wrapped in the service's signed assertion (JWT).
Jwt(t) == "jwt(" \o t \o ")"

\* What a credential slot of a request can hold: absent, empty, a token, a wrapped token.
CredValues == {None, ""} \cup RawTokens \cup {Jwt("tB")}

Requests ==
    [param : CredValues, header : CredValues, cookie : CredValues,
     cookie_deprecated : CredValues]

\* Python truthiness of an optional string.
Truthy(x) == x # None /\ x # ""

\* fastapi.security: an extractor built with auto_error=False yields None when the
\* credential is missing or empty (security.py 23, 28-30).
ExtractOptional(x) == IF Truthy(x) THEN x ELSE None

\* security.py 25: APIKeyCookie(name=...) is built WITHOUT auto_error=False, so a
\* missing cookie makes the extractor raise "Not authenticated" during dependency
\* resolution, before get_current_user's body runs.  The status is 403 up to
\* FastAPI 0.121 and 401 from 0.122 on: both builds are possible.
NotAuthenticatedStatuses == {401, 403}

\* security.py 26: the module-level extractor OBJECT for the deprecated cookie.
auth_by_cookie_deprecated == "<APIKeyCookie name=access_token>"

\* security.py 53:  auth_param or auth_header or auth_cookie or auth_by_cookie_deprecated
\* The last operand is the extractor object (the parameter auth_cookie_deprecated
\* is commented out on line 51), never the deprecated cookie's value.
SelectToken(auth_param, auth_header, auth_cookie) ==
    IF Truthy(auth_param) THEN auth_param
    ELSE IF Truthy(auth_header) THEN auth_header
    ELSE IF Truthy(auth_cookie) THEN auth_cookie
    ELSE auth_by_cookie_deprecated

\* security.py 60: _get_jhub_token_from_jwt_token (jhub_apps/service/auth.py):
\* a wrapped token is unwrapped to the hub token; anything else is used as it is.
GetJhubTokenFromJwtToken(t) ==
    IF \E r \in RawTokens : t = Jwt(r)
    THEN CHOOSE r \in RawTokens : t = Jwt(r)
    ELSE t

\* security.py 38-42: JUPYTERHUB_OAUTH_SCOPES unset or empty gives the default.
\* The environment variable is unset, empty, or holds a JSON list of scopes.
EnvScopeValues ==
    {[kind |-> "unset", list |-> <<>>], [kind |-> "empty", list |-> <<>>]}
    \cup {[kind |-> "json", list |-> l] : l \in SeqsUpTo(Scopes, MaxPolicyLen)}

LoadAccessScopes(env) ==
    IF env.kind = "json" THEN env.list ELSE <<"access:services">>

\* The hub's answers to GET /user.
HubStatuses == {200, 302, 401, 403, 500}

NoBody == [valid |-> FALSE, scopes |-> {}]

HubBodies == {NoBody} \cup {[valid |-> TRUE, scopes |-> s] : s \in SUBSET Scopes}

HubResponses == [status : HubStatuses, body : HubBodies]

NoResponse == [status |-> 0, body |-> NoBody]

\* httpx.Response.is_error: a 4xx or 5xx status (security.py 68).
IsError(resp) == resp.status >= 400 /\ resp.status <= 599

NoPrincipal == [present |-> FALSE, scopes |-> {}, share_permissions |-> None]

MustLoginDetail == "Must login with token parameter or Authorization bearer header"
AuthFailedDetail == "Authentication failed. Please try logging in again."
NotAuthorizedDetail == "User is not authorized to access this service."

Raised(status, detail) == [status |-> status, detail |-> detail, principal |-> NoPrincipal]

NoResult == [status |-> 0, detail |-> "", principal |-> NoPrincipal]

\* security.py 84:  any(scope in user.scopes for scope in access_scopes)
RECURSIVE AnyScopeInMutant(_, _)
AnyScopeInMutant(policy, scopes) ==
    IF policy = <<>> THEN TRUE
    ELSE Head(policy) \in scopes /\ AnyScopeInMutant(Tail(policy), scopes)
RECURSIVE AnyScopeIn(_, _)
AnyScopeIn(policy, scopes) ==
    IF policy = <<>> THEN FALSE
    ELSE Head(policy) \in scopes \/ AnyScopeIn(Tail(policy), scopes)

AuthIdle ==
    /\ access_scopes = <<"access:services">>
    /\ authPc = "off"
    /\ request = [param |-> None, header |-> None, cookie |-> None,
                  cookie_deprecated |-> None]
    /\ token = None
    /\ exchanges = <<>>
    /\ hubResp = NoResponse
    /\ authResult = NoResult

InitAuth ==
    /\ \E env \in EnvScopeValues : access_scopes = LoadAccessScopes(env)
    /\ authPc = "ready"
    /\ request = [param |-> None, header |-> None, cookie |-> None,
                  cookie_deprecated |-> None]
    /\ token = None
    /\ exchanges = <<>>
    /\ hubResp = NoResponse
    /\ authResult = NoResult

\* A request arrives: FastAPI resolves the three Security dependencies
\* (security.py 48-50), then get_current_user runs up to its await of
\* client.get (security.py 53-67).
GetCurrentUserCall ==
    /\ authPc = "ready"
    /\ \E r \in Requests, st \in NotAuthenticatedStatuses :
        LET auth_param == ExtractOptional(r.param)
            auth_header == ExtractOptional(r.header)
            auth_cookie == r.cookie
            tok == SelectToken(auth_param, auth_header, auth_cookie)
        IN  /\ request' = r
            /\ IF ~Truthy(auth_cookie)
               THEN \* auth_by_cookie raises: the body never runs
                    /\ authResult' = Raised(st, "Not authenticated")
                    /\ authPc' = "done"
                    /\ UNCHANGED <<token, exchanges>>
               ELSE IF tok = None
               THEN /\ authResult' = Raised(401, MustLoginDetail)
                    /\ authPc' = "done"
                    /\ UNCHANGED <<token, exchanges>>
               ELSE /\ token' = GetJhubTokenFromJwtToken(tok)
                    /\ exchanges' = Append(exchanges, token')
                    /\ authPc' = "awaiting"
                    /\ UNCHANGED authResult
    /\ UNCHANGED <<access_scopes, hubResp, synthVars, gitVars, extractVars>>

\* The hub answers and get_current_user resumes (security.py 67-97).
GetCurrentUserResume ==
    /\ authPc = "awaiting"
    /\ \E resp \in HubResponses, hub5 \in BOOLEAN :
        /\ hubResp' = resp
        /\ authResult' =
            IF IsError(resp) THEN Raised(401, AuthFailedDetail)
            ELSE IF ~resp.body.valid
            THEN \* User(**resp.json()) raises: an unhandled error
                 Raised(500, "Internal Server Error")
            ELSE LET user == [present |-> TRUE, scopes |-> resp.body.scopes,
                              share_permissions |->
                                  IF hub5 THEN "computed" ELSE None]
                 IN  IF AnyScopeIn(access_scopes, user.scopes)
                     THEN [status |-> 200, detail |-> "", principal |-> user]
                     ELSE [status |-> 403, detail |-> NotAuthorizedDetail,
                           principal |-> NoPrincipal]
    /\ authPc' = "done"
    /\ UNCHANGED <<access_scopes, request, token, exchanges, synthVars, gitVars, extractVars>>

NextAuth == GetCurrentUserCall \/ GetCurrentUserResume

(***************************************************************************)
(*                          COMMAND SYNTHESIZER                            *)
(* _get_app_command_args of the spawner subclass.  Its source file is not  *)
(* among the sources; what is known of it is section 4.1 of the            *)
(* specification and the assertions of tests_unit/test_custom_command.py.  *)
(* A command line is a sequence of words; an argv is a sequence of such.   *)
(***************************************************************************)

\* Bounds of the synthesizer model.
MaxCmdLen == 2

CmdWords == {"python", "{port}", "|", "&&", "cd"}

CustomCommands == SeqsUpTo(CmdWords, MaxCmdLen)

Frameworks == {"custom", "streamlit"}

CondaEnvs == {None, "", "myenv", "x"}

FilePaths == {"", "app.py"}

UserOptions ==
    [framework : Frameworks, custom_command : CustomCommands, conda_env : CondaEnvs,
     skip_conda : BOOLEAN, filepath : FilePaths]

\* test_custom_command.py 16: the port the spawner was assigned.
PortWord == "8888"

\* test_custom_command.py 50: the shell the custom body is handed to.
ShellPath == <<"/bin/sh">>

\* test_custom_command.py 51, 73, 93, 116, 139: the shell's -c flag is emitted in
\* the proxy's escaped form {-}c (the proxy turns {-} into - when it starts the
\* command), not as the plain -c.
ShellFlagPlain == <<"-c">>
ShellFlag == <<"{-}c">>

\* Section 4.1 step 4: every {port} of a built-in template becomes the port.
SubstitutePort(words) ==
    [i \in DOMAIN words |-> IF words[i] = "{port}" THEN PortWord ELSE words[i]]

\* Section 4.1 step 1: the custom body is the custom_command verbatim, {port}
\* left for the proxy to substitute (test_custom_command.py 53, 72, 92).
CustomBody(custom_command) == custom_command

\* Section 4.1 steps 2-3: --conda-env=<name> only when skip_conda is false and
\* conda_env is set (test_custom_command.py 113, 136).
CondaArgsIgnoringSkip(opts) ==
    IF Truthy(opts.conda_env) THEN << <<"--conda-env=", opts.conda_env>> >> ELSE <<>>
CondaArgs(opts) ==
    IF ~opts.skip_conda /\ Truthy(opts.conda_env)
    THEN << <<"--conda-env=", opts.conda_env>> >>
    ELSE <<>>

\* Section 4.1 step 4: the built-in template of streamlit.
StreamlitArgs(opts) ==
    << <<"streamlit">>, <<"run">>, <<opts.filepath>>,
       SubstitutePort(<<"--server.port=", "{port}">>) >>

NoOptions ==
    [framework |-> "custom", custom_command |-> <<>>, conda_env |-> None,
     skip_conda |-> FALSE, filepath |-> ""]

SynthIdle ==
    /\ synthPc = "off"
    /\ user_options = NoOptions
    /\ command_args = <<>>
    /\ synthError = None

InitSynth ==
    /\ synthPc = "ready"
    /\ user_options = NoOptions
    /\ command_args = <<>>
    /\ synthError = None

\* spawner._get_app_command_args() on the user_options of one app.
GetAppCommandArgs ==
    /\ synthPc = "ready"
    /\ \E opts \in UserOptions :
        /\ user_options' = opts
        /\ IF opts.framework = "custom"
           THEN IF opts.custom_command = <<>>
                THEN /\ synthError' = "ConfigurationError"
                     /\ command_args' = <<>>
                ELSE /\ synthError' = None
                     /\ command_args' =
                            CondaArgs(opts)
                            \o <<ShellPath, ShellFlag, CustomBody(opts.custom_command)>>
           ELSE IF opts.filepath = ""
                THEN /\ synthError' = "ConfigurationError"
                     /\ command_args' = <<>>
                ELSE /\ synthError' = None
                     /\ command_args' = CondaArgs(opts) \o StreamlitArgs(opts)
    /\ synthPc' = "done"
    /\ UNCHANGED <<authVars, gitVars, extractVars>>

NextSynth == GetAppCommandArgs

(***************************************************************************)
(*                  REPOSITORY CONFIGURATION LOADER                        *)
(***************************************************************************)

\* Bounds of the loader model.
MaxUrlTail == 1
MaxRefLen == 3

\* The backtick character (written by name: the lexer reserves the character).
BACKTICK == "backtick"
LF == "\n"
CR == "\r"
TAB == "\t"

UpperCase == {"G", "I", "T"}
LowerCase == {"e", "f", "g", "h", "i", "l", "m", "p", "s", "t"}
Letters == UpperCase \cup LowerCase

\* str.lower() on one character.
Lower(c) ==
    CASE c = "G" -> "g" [] c = "I" -> "i" [] c = "T" -> "t" [] OTHER -> c

\* urllib.parse.scheme_chars: letters, digits and + - .
SchemeChars == Letters \cup {"+", "-", "."}

\* urlsplit first drops the characters TAB, CR and LF from the URL
\* (urllib.parse._UNSAFE_URL_BYTES_TO_REMOVE).
RECURSIVE RemoveUnsafe(_)
RemoveUnsafe(url) ==
    IF url = <<>> THEN <<>>
    ELSE IF Head(url) \in {TAB, CR, LF} THEN RemoveUnsafe(Tail(url))
    ELSE <<Head(url)>> \o RemoveUnsafe(Tail(url))

\* str.find(":") as a 1-based index, 0 when there is none.
FindColon(url) ==
    IF \E i \in DOMAIN url : url[i] = ":"
    THEN CHOOSE i \in DOMAIN url : url[i] = ":" /\ \A j \in 1..(i - 1) : url[j] # ":"
    ELSE 0

\* app_from_git.py 19: urlparse(repository.url).scheme: the lower-cased text before
\* the first colon when it starts with a letter and holds only scheme characters,
\* the empty string otherwise.
UrlScheme(url) ==
    LET u == RemoveUnsafe(url)
        i == FindColon(u)
    IN  IF i > 1 /\ u[1] \in Letters /\ \A j \in 1..(i - 1) : u[j] \in SchemeChars
        THEN [j \in 1..(i - 1) |-> Lower(u[j])]
        ELSE <<>>

\* app_from_git.py 20
allowed_schemes ==
    {<<"h", "t", "t", "p", "s">>, <<"h", "t", "t", "p">>, <<"g", "i", "t">>,
     <<"s", "s", "h">>}

\* app_from_git.py 28
UrlForbiddenCharsMutant == {";", "|", "&", BACKTICK, LF, CR}
UrlForbiddenChars == {";", "|", "&", "$", BACKTICK, LF, CR}

\* app_from_git.py 37: the character class [\w\-./ ]
RefCharClass == Letters \cup {"_", "-", ".", "/", " "}

\* app_from_git.py 37: re.match(r'^[\w\-./ ]+$', ref).  Python's $ also matches
\* just before a newline that ends the string.
RefMatches(ref) ==
    \/ Len(ref) >= 1 /\ \A i \in DOMAIN ref : ref[i] \in RefCharClass
    \/ /\ Len(ref) >= 2
       /\ ref[Len(ref)] = LF
       /\ \A i \in 1..(Len(ref) - 1) : ref[i] \in RefCharClass

\* app_from_git.py 44
RefForbiddenPatternsMutant ==
    {<<";">>, <<"|">>, <<"&">>, <<"$">>, <<BACKTICK>>, <<LF>>, <<CR>>}
RefForbiddenPatterns ==
    {<<";">>, <<"|">>, <<"&">>, <<"$">>, <<BACKTICK>>, <<".", ".", "/">>, <<LF>>, <<CR>>}

\* repository.ref is None
NoneRef == <<None>>

\* Python truthiness of repository.ref (app_from_git.py 35, 74)
RefGiven(ref) == ref # NoneRef /\ ref # <<>>

\* app_from_git.py 16-48: _validate_git_repository: TRUE when it raises no error.
ValidateGitRepository(repo) ==
    /\ UrlScheme(repo.url) \in allowed_schemes
    /\ ~\E i \in DOMAIN repo.url : repo.url[i] \in UrlForbiddenChars
    /\ RefGiven(repo.ref) =>
          /\ RefMatches(repo.ref)
          /\ ~\E pat \in RefForbiddenPatterns : Contains(repo.ref, pat)
\* The URLs of the model: a scheme part, then up to MaxUrlTail more characters.
UrlPrefixes ==
    {<<"h", "t", "t", "p", "s", ":">>, <<"h", "t", "t", "p", ":">>,
     <<"g", "i", "t", ":">>, <<"s", "s", "h", ":">>, <<"G", "I", "T", ":">>,
     <<"f", "t", "p", ":">>, <<"f", "i", "l", "e", ":">>, <<"g", TAB, "i", "t", ":">>,
     <<>>}

UrlTailChars == {"h", ";", "|", "&", "$", BACKTICK, LF, CR, TAB}

Urls == {p \o t : p \in UrlPrefixes, t \in SeqsUpTo(UrlTailChars, MaxUrlTail)}

GoodUrl == <<"h", "t", "t", "p", "s", ":", "h">>

RefChars == {"m", ".", "/", ";", "|", "&", BACKTICK, "$", LF}

Refs == SeqsUpTo(RefChars, MaxRefLen)

ConfigDirectories == {".", "app"}

\* Every URL with a None or plain ref, and every ref with a plain URL.
Repositories ==
    [url : Urls, ref : {NoneRef, <<"m">>}, config_directory : ConfigDirectories]
    \cup [url : {GoodUrl}, ref : Refs, config_directory : ConfigDirectories]

\* What the remote holds: the repository, the requested ref in it, and the
\* directory app in that ref (the root directory . is in every clone).
Worlds ==
    {w \in [repoExists : BOOLEAN, refExists : BOOLEAN, hasApp : BOOLEAN] :
        /\ w.refExists => w.repoExists
        /\ w.hasApp => w.refExists}

UnknownWorld == [repoExists |-> TRUE, refExists |-> TRUE, hasApp |-> TRUE]

ConfigDirectoryInClone(w, dir) == dir = "." \/ (dir = "app" /\ w.hasApp)

(* The outcomes of git.Repo.clone_from (app_from_git.py 58).  A GitCommandError  *)
(* carries git's message; the model keeps, of a message, the set of the substrings *)
(* that lines 64-74 look for in it.                                              *)
(*   "fatal: could not read Username for 'https://...'"  (over http or https, no *)
(*                          such repository or a private one, no credentials)     *)
(*   "ERROR: Repository not found."                                               *)
(*   "fatal: repository '...' not found"                                          *)
(*   "fatal: repository '...' does not exist"                                     *)
(*   "fatal: Remote branch ... not found in upstream origin"                      *)
(*   "fatal: Authentication failed for '...'"                                     *)
(*   "fatal: unable to access '...'"                                              *)
MsgCouldNotRead == {"fatal: could not read"}
MsgRepositoryNotFound == {"Repository not found", "not found"}
MsgNotFound == {"not found"}
MsgDoesNotExist == {"does not exist"}
MsgAuthenticationFailed == {"Authentication failed"}
MsgUnableToAccess == {}

NoOutcome == [kind |-> "none", msg |-> {}]
Ok == [kind |-> "ok", msg |-> {}]
GitCommandError(msg) == [kind |-> "GitCommandError", msg |-> msg]
GitTimeout == [kind |-> "TimeoutError", msg |-> {}]
OtherException == [kind |-> "Exception", msg |-> {}]

OverHttp(url) ==
    UrlScheme(url) \in {<<"h", "t", "t", "p", "s">>, <<"h", "t", "t", "p">>}

CloneOutcomes(w, repo) ==
    IF ~w.repoExists
    THEN {GitCommandError(m) :
            m \in {MsgRepositoryNotFound, MsgNotFound, MsgDoesNotExist}
                  \cup (IF OverHttp(repo.url) THEN {MsgCouldNotRead} ELSE {})}
    ELSE IF RefGiven(repo.ref) /\ ~w.refExists
    THEN {GitCommandError(MsgNotFound)}
    ELSE {Ok, GitTimeout, OtherException}
         \cup {GitCommandError(m) :
                 m \in {MsgAuthenticationFailed, MsgUnableToAccess}
                       \cup (IF OverHttp(repo.url) THEN {MsgCouldNotRead} ELSE {})}

\* app_from_git.py 59-95: the status _clone_repo raises for a failed clone.
CloneErrorStatus(outcome, ref) ==
    IF outcome.kind = "GitCommandError"
    THEN IF "Authentication failed" \in outcome.msg
            \/ "fatal: could not read" \in outcome.msg
         THEN 401
         ELSE IF "Repository not found" \in outcome.msg \/ "does not exist" \in outcome.msg
         THEN 404
         ELSE IF RefGiven(ref)
                 /\ ("unknown revision" \in outcome.msg \/ "not found" \in outcome.msg)
         THEN 404
         ELSE 400
    ELSE IF outcome.kind = "TimeoutError" THEN 504
    ELSE 500

\* app_from_git.py 104: leaving the with block removes the TemporaryDirectory,
\* whether the block returned or raised.
TemporaryDirectoryExitKeepsOnError(raised) == raised
TemporaryDirectoryExit(raised) == FALSE

\* The conda-project file that is read: whether it parses, the thumbnail it names,
\* and whether its variables make a valid JHubAppConfig.
ThumbnailPaths == {None, "thumb.png", "missing.png"}

ProjectFiles ==
    [parses : BOOLEAN, thumbnail_path : ThumbnailPaths, valid : BOOLEAN]

NoProject == [parses |-> FALSE, thumbnail_path |-> None, valid |-> FALSE]

\* A directory of the clone is the path to it from the clone's root: temp_dir
\* itself is the empty path.
TempDir == <<>>

\* No directory was opened yet.
NoDirectory == <<None>>

\* app_from_git.py 187: temp_dir_path / repository.config_directory
JoinPath(base, dir) == IF dir = "." THEN base ELSE Append(base, dir)

\* app_from_git.py 107: the directory handed to _get_conda_project_config_yaml,
\* and by it to CondaProject (line 169), is temp_dir: repository.config_directory
\* takes no part in it.
CondaProjectDirectory(temp_dir, repo) == temp_dir

NoRepository == [url |-> <<>>, ref |-> NoneRef, config_directory |-> "."]

GitIdle ==
    /\ gitPc = "off"
    /\ repository = NoRepository
    /\ world = UnknownWorld
    /\ tempDirExists = FALSE
    /\ tempDirAcquired = FALSE
    /\ cloneCalls = <<>>
    /\ cloneOutcome = NoOutcome
    /\ projectVars = NoProject
    /\ projectDir = NoDirectory
    /\ gitStatus = 0
    /\ endedAt = None

InitGit ==
    /\ gitPc = "ready"
    /\ repository = NoRepository
    /\ world = UnknownWorld
    /\ tempDirExists = FALSE
    /\ tempDirAcquired = FALSE
    /\ cloneCalls = <<>>
    /\ cloneOutcome = NoOutcome
    /\ projectVars = NoProject
    /\ projectDir = NoDirectory
    /\ gitStatus = 0
    /\ endedAt = None

\* The call ends by raising at step with status: the exception leaves the with block.
RaiseFrom(step, status) ==
    /\ gitStatus' = status
    /\ endedAt' = step
    /\ tempDirExists' = TemporaryDirectoryExit(TRUE)
    /\ gitPc' = "done"

\* app_from_git.py 98-104: _get_app_configuration_from_git is called and enters
\* the with block.
EnterTemporaryDirectory ==
    /\ gitPc = "ready"
    /\ \E repo \in Repositories : repository' = repo
    /\ tempDirExists' = TRUE
    /\ tempDirAcquired' = TRUE
    /\ gitPc' = "tempdir"
    /\ UNCHANGED <<world, cloneCalls, cloneOutcome, projectVars, projectDir, gitStatus,
                   endedAt,
                   authVars, synthVars, extractVars>>

\* app_from_git.py 105, 51-95: _clone_repo.
CloneRepo ==
    /\ gitPc = "tempdir"
    /\ IF ~ValidateGitRepository(repository)
       THEN /\ RaiseFrom("validation", 400)
            /\ UNCHANGED <<world, cloneCalls, cloneOutcome>>
       ELSE \E w \in Worlds : \E outcome \in CloneOutcomes(w, repository) :
            /\ world' = w
            /\ cloneOutcome' = outcome
            /\ cloneCalls' = Append(cloneCalls, <<repository.url, repository.ref>>)
            /\ IF outcome = Ok
               THEN /\ gitPc' = "cloned"
                    /\ UNCHANGED <<tempDirExists, gitStatus, endedAt>>
               ELSE RaiseFrom("clone", CloneErrorStatus(outcome, repository.ref))
    /\ UNCHANGED <<repository, tempDirAcquired, projectVars, projectDir, authVars,
                   synthVars, extractVars>>

\* app_from_git.py 106, 184-194: _check_conda_project_config_directory_exists.
CheckCondaProjectConfigDirectoryExists ==
    /\ gitPc = "cloned"
    /\ IF ~ConfigDirectoryInClone(world, repository.config_directory)
       THEN RaiseFrom("config_directory", 400)
       ELSE /\ gitPc' = "checked"
            /\ UNCHANGED <<tempDirExists, gitStatus, endedAt>>
    /\ UNCHANGED <<repository, world, tempDirAcquired, cloneCalls, cloneOutcome,
                   projectVars, projectDir, authVars, synthVars, extractVars>>

\* app_from_git.py 107, 162-181: _get_conda_project_config_yaml.
GetCondaProjectConfigYaml ==
    /\ gitPc = "checked"
    /\ \E f \in ProjectFiles :
        /\ projectVars' = f
        /\ projectDir' = CondaProjectDirectory(TempDir, repository)
        /\ IF ~f.parses
           THEN RaiseFrom("project_file", 400)
           ELSE /\ gitPc' = "yaml"
                /\ UNCHANGED <<tempDirExists, gitStatus, endedAt>>
    /\ UNCHANGED <<repository, world, tempDirAcquired, cloneCalls, cloneOutcome,
                   authVars, synthVars, extractVars>>

\* app_from_git.py 108-114, 117-143: the configuration is extracted and loaded
\* into the JHubAppConfig model, and the call returns it.
LoadJhubAppConfigToPydanticModel ==
    /\ gitPc = "yaml"
    /\ IF projectVars.thumbnail_path = "missing.png"
       THEN \* thumbnail_path.read_bytes() raises FileNotFoundError: unhandled
            RaiseFrom("thumbnail", 500)
       ELSE IF ~projectVars.valid
       THEN RaiseFrom("model_validation", 400)
       ELSE /\ gitStatus' = 200
            /\ endedAt' = "return"
            /\ tempDirExists' = TemporaryDirectoryExit(FALSE)
            /\ gitPc' = "done"
    /\ UNCHANGED <<repository, world, tempDirAcquired, cloneCalls, cloneOutcome,
                   projectVars, projectDir, authVars, synthVars, extractVars>>

NextGit ==
    \/ EnterTemporaryDirectory
    \/ CloneRepo
    \/ CheckCondaProjectConfigDirectoryExists
    \/ GetCondaProjectConfigYaml
    \/ LoadJhubAppConfigToPydanticModel

(***************************************************************************)
(*             EXTRACTION OF THE APPLICATION CONFIGURATION                 *)
(* app_from_git.py 146-159 and 117-143.  A variable name is a sequence of   *)
(* parts: the marker JHUB_APP_CONFIG_ is one part, and no other part holds  *)
(* any of it.  A Python dict is a function from its keys; a key is a name.  *)
(* The values of a dict are of several Python types, so each is tagged.     *)
(***************************************************************************)

MaxNameLen == 2
MaxVars == 2

\* app_from_git.py 149-152: the literal "JHUB_APP_CONFIG_"
Marker == "JHUB_APP_CONFIG_"

NameParts == {Marker, "name", "environment", "repository"}

\* The names a project file can declare.
Names == SeqsUpTo(NameParts, MaxNameLen) \ {<<>>}

Values == {"v1", "v2"}

\* conda_project_yaml.variables: a mapping, iterated in the file's order; its
\* keys are distinct.
DeclaredVariables ==
    {items \in SeqsUpTo([name : Names, value : Values], MaxVars) :
        \A i, j \in DOMAIN items : items[i].name = items[j].name => i = j}

EmptyDict == <<>>

\* A str held in a dict.
Str(v) == [kind |-> "str", str |-> v, map |-> EmptyDict]

\* A dict held in a dict.
Mapping(m) == [kind |-> "dict", str |-> None, map |-> m]

\* The Repository descriptor held in a dict.
RepositoryValue == [kind |-> "repository", str |-> None, map |-> EmptyDict]

\* k.startswith("JHUB_APP_CONFIG_")
StartsWithMarker(k) == Len(k) >= 1 /\ k[1] = Marker

\* The place of the last occurrence of the marker in k, 0 if there is none.
LastMarker(k) ==
    LET I == {i \in DOMAIN k : k[i] = Marker}
    IN  IF I = {} THEN 0 ELSE CHOOSE i \in I : \A j \in I : j <= i

\* k.split("JHUB_APP_CONFIG_")[-1]: what follows the last occurrence of the
\* marker (all of k if the marker does not occur).
SplitLast(k) == SubSeq(k, LastMarker(k) + 1, Len(k))

\* A dict comprehension over items: for a key given more than once, the last
\* value stays.
DictOf(items) ==
    [key \in {items[i].name : i \in DOMAIN items} |->
        LET I == {i \in DOMAIN items : items[i].name = key}
        IN  items[CHOOSE i \in I : \A j \in I : j <= i].value]

\* {**a, **b}: the keys of both, b's value where both have the key.
Merge(a, b) ==
    [key \in DOMAIN a \cup DOMAIN b |-> IF key \in DOMAIN b THEN b[key] ELSE a[key]]

\* app_from_git.py 148-151
JhubAppsVariables(items) ==
    LET marked == SelectSeq(items, LAMBDA it : StartsWithMarker(it.name))
    IN  DictOf([i \in DOMAIN marked |->
                   [name |-> SplitLast(marked[i].name), value |-> Str(marked[i].value)]])

\* app_from_git.py 152
EnvironmentVariables(items) ==
    DictOf(SelectSeq(items, LAMBDA it : ~StartsWithMarker(it.name)))

\* app_from_git.py 146-159: _extract_jhub_apps_config_from_conda_project_config
ExtractJhubAppsConfig(items) ==
    Merge(JhubAppsVariables(items),
          <<"environment">> :> Mapping(EnvironmentVariables(items)))

\* dict.get(key, default)
Get(d, key, default) == IF key \in DOMAIN d THEN d[key] ELSE default

\* app_from_git.py 121-127: the data URL of the thumbnail file, "" with no
\* thumbnail_path.
ThumbnailBase64(d) ==
    IF Get(d, <<"thumbnail_path">>, Str("")) # Str("") THEN "data:image" ELSE ""

\* app_from_git.py 130-135: the dict JHubAppConfig is built from.
JHubAppConfigKwargs(d) ==
    Merge(d, (<<"repository">> :> RepositoryValue)
             @@ (<<"thumbnail">> :> Str(ThumbnailBase64(d)))
             @@ (<<"env">> :> Get(d, <<"environment">>, Mapping(EmptyDict))))

ExtractIdle ==
    /\ extractPc = "off"
    /\ conda_project_variables = <<>>
    /\ jhub_apps_config_dict = EmptyDict
    /\ app_config_kwargs = EmptyDict

InitExtract ==
    /\ extractPc = "declared"
    /\ conda_project_variables \in DeclaredVariables
    /\ jhub_apps_config_dict = EmptyDict
    /\ app_config_kwargs = EmptyDict

\* app_from_git.py 108
ExtractJhubAppsConfigFromCondaProjectConfig ==
    /\ extractPc = "declared"
    /\ jhub_apps_config_dict' = ExtractJhubAppsConfig(conda_project_variables)
    /\ extractPc' = "extracted"
    /\ UNCHANGED <<conda_project_variables, app_config_kwargs, authVars, synthVars,
                   gitVars>>

\* app_from_git.py 109, 117-135
BuildJHubAppConfig ==
    /\ extractPc = "extracted"
    /\ app_config_kwargs' = JHubAppConfigKwargs(jhub_apps_config_dict)
    /\ extractPc' = "built"
    /\ UNCHANGED <<conda_project_variables, jhub_apps_config_dict, authVars,
                   synthVars, gitVars>>

NextExtract ==
    \/ ExtractJhubAppsConfigFromCondaProjectConfig
    \/ BuildJHubAppConfig

(***************************************************************************)
(*                            SPECIFICATIONS                               *)
(***************************************************************************)

AuthOnly == InitAuth /\ SynthIdle /\ GitIdle /\ ExtractIdle
SynthOnly == AuthIdle /\ InitSynth /\ GitIdle /\ ExtractIdle
GitOnly == AuthIdle /\ SynthIdle /\ InitGit /\ ExtractIdle
ExtractOnly == AuthIdle /\ SynthIdle /\ GitIdle /\ InitExtract

Init == AuthOnly \/ SynthOnly \/ GitOnly \/ ExtractOnly

Next == NextAuth \/ NextSynth \/ NextGit \/ NextExtract

Spec == Init /\ [][Next]_vars

\* One component at a time.
SpecAuth == AuthOnly /\ [][NextAuth]_vars
SpecSynth == SynthOnly /\ [][NextSynth]_vars
SpecGit == GitOnly /\ [][NextGit]_vars
SpecExtract == ExtractOnly /\ [][NextExtract]_vars
(***************************************************************************)
(*                     PROPERTIES: AUTHENTICATION GATE                     *)
(***************************************************************************)

\* A 2xx status: what the claims call a success response.
IsSuccess(resp) == resp.status >= 200 /\ resp.status <= 299

\* The first non-empty credential of a request in the documented priority order:
\* query parameter, Authorization header, primary cookie, deprecated cookie.
FirstNonEmptyCredential(r) ==
    IF Truthy(r.param) THEN r.param
    ELSE IF Truthy(r.header) THEN r.header
    ELSE IF Truthy(r.cookie) THEN r.cookie
    ELSE IF Truthy(r.cookie_deprecated) THEN r.cookie_deprecated
    ELSE None

\* C1: for every request that carries a credential, the one token exchanged with
\* the hub is the first non-empty one among query token, header token, primary
\* cookie, deprecated cookie; if the hub rejects it the result is 401, and there
\* is never a second exchange.
C1_FirstMatchWins ==
    (authPc \in {"awaiting", "done"} /\ FirstNonEmptyCredential(request) # None) =>
        /\ exchanges = <<GetJhubTokenFromJwtToken(FirstNonEmptyCredential(request))>>
        /\ (authPc = "done" /\ IsError(hubResp)) => authResult.status = 401

\* C2: a request with no credential in any location fails with 401, and nothing
\* is sent to the hub's GET /user.
C2_NoCredentialIsUnauthenticated ==
    (authPc = "done" /\ FirstNonEmptyCredential(request) = None) =>
        /\ authResult.status = 401
        /\ exchanges = <<>>

\* C3: after a successful identity exchange the Principal is returned if and only
\* if its scopes and the AccessPolicy intersect; when they are disjoint the call
\* fails with 403.
C3_AuthorizedIffScopesIntersect ==
    (authPc = "done" /\ IsSuccess(hubResp) /\ hubResp.body.valid) =>
        LET common == hubResp.body.scopes \cap Range(access_scopes)
        IN  /\ (common # {}) <=>
                  /\ authResult.status = 200
                  /\ authResult.principal.present
                  /\ authResult.principal.scopes = hubResp.body.scopes
            /\ (common = {}) <=>
                  /\ authResult.status = 403
                  /\ ~authResult.principal.present

\* C3's case: a two-scope policy, a Principal with scopes, none of them in the
\* policy, rejected with 403.
C3_Witness ==
    /\ authPc = "done"
    /\ IsSuccess(hubResp)
    /\ hubResp.body.valid
    /\ Len(access_scopes) = 2
    /\ hubResp.body.scopes # {}
    /\ hubResp.body.scopes \cap Range(access_scopes) = {}
    /\ authResult.status = 403

\* C4: every hub response that is not a 2xx success makes the call fail with 401
\* and the fixed detail, and no Principal is built from its body.
C4_NonSuccessIsUnauthenticated ==
    (authPc = "done" /\ hubResp # NoResponse /\ ~IsSuccess(hubResp)) =>
        authResult = Raised(401, AuthFailedDetail)

(***************************************************************************)
(*                     PROPERTIES: COMMAND SYNTHESIZER                     *)
(***************************************************************************)

CustomSynthesized ==
    /\ synthPc = "done"
    /\ user_options.framework = "custom"
    /\ user_options.custom_command # <<>>

GitCalled == gitPc \notin {"off", "ready"}

\* The control characters among the characters of the model.
ControlChars == {LF, CR, TAB}

\* The ref holds ; | & a backtick, or the sequence ../
RefIsDangerous(ref) ==
    /\ ref # NoneRef
    /\ \/ \E i \in DOMAIN ref : ref[i] \in {";", "|", "&", BACKTICK}
       \/ Contains(ref, <<".", ".", "/">>)

\* C7: a descriptor whose ref holds ; | & a backtick or ../ is rejected with 400
\* by the validation, and git clone is never invoked for it.
C7_DangerousRefRejectedBeforeClone ==
    (GitCalled /\ RefIsDangerous(repository.ref)) =>
        /\ cloneCalls = <<>>
        /\ gitPc \in {"tempdir", "done"}
        /\ gitPc = "done" => (gitStatus = 400 /\ endedAt = "validation")

\* C7's case: a ref with ../ that the character class lets through, rejected.
C7_Witness ==
    /\ gitPc = "done"
    /\ Contains(repository.ref, <<".", ".", "/">>)
    /\ RefMatches(repository.ref)
    /\ gitStatus = 400

\* C8 as stated: a descriptor whose scheme is not allowed or whose URL holds a
\* control character is rejected with 400 and never cloned; a clone is only
\* attempted with an allowed scheme and a URL free of control characters.
C8_ControlCharactersRejected ==
    /\ (GitCalled /\ (UrlScheme(repository.url) \notin allowed_schemes
                      \/ \E i \in DOMAIN repository.url :
                            repository.url[i] \in ControlChars)) =>
          /\ cloneCalls = <<>>
          /\ gitPc = "done" => gitStatus = 400
    /\ \A k \in DOMAIN cloneCalls :
          /\ UrlScheme(cloneCalls[k][1]) \in allowed_schemes
          /\ ~\E i \in DOMAIN cloneCalls[k][1] : cloneCalls[k][1][i] \in ControlChars

\* C8 as amended: the same, for the characters ; | & $ backtick LF CR in place of
\* "a control character", the scheme being the one urlparse reports.
C8_InjectionCharactersRejected ==
    /\ (GitCalled /\ (UrlScheme(repository.url) \notin allowed_schemes
                      \/ \E i \in DOMAIN repository.url :
                            repository.url[i] \in {";", "|", "&", "$", BACKTICK, LF, CR})) =>
          /\ cloneCalls = <<>>
          /\ gitPc \in {"tempdir", "done"}
          /\ gitPc = "done" => (gitStatus = 400 /\ endedAt = "validation")
    /\ \A k \in DOMAIN cloneCalls :
          /\ UrlScheme(cloneCalls[k][1]) \in allowed_schemes
          /\ ~\E i \in DOMAIN cloneCalls[k][1] :
                cloneCalls[k][1][i] \in {";", "|", "&", "$", BACKTICK, LF, CR}

\* C8's case: an allowed scheme, a $ in the URL, rejected without a clone.
C8_Witness ==
    /\ gitPc = "done"
    /\ UrlScheme(repository.url) \in allowed_schemes
    /\ "$" \in Range(repository.url)
    /\ gitStatus = 400
    /\ cloneCalls = <<>>

\* C9: once _get_app_configuration_from_git has returned or raised, whichever
\* step ended it, the temporary directory it acquired no longer exists; until
\* then it does.
C9_TempDirGoneWhenCallEnds ==
    /\ gitPc = "done" => (tempDirAcquired /\ ~tempDirExists)
    /\ gitPc \in {"tempdir", "cloned", "checked", "yaml"} => tempDirExists

\* C9's case: the call ended by an unreadable thumbnail, after the clone.
C9_Witness ==
    /\ gitPc = "done"
    /\ endedAt = "thumbnail"
    /\ cloneCalls # <<>>
    /\ tempDirAcquired

\* C10, for the config path (the repository and the ref exist and were cloned):
\* whenever the requested config path does not exist in the clone, the call fails
\* with 404 and no other status.
C10_MissingConfigPathIsNotFound ==
    (/\ gitPc = "done"
     /\ cloneOutcome = Ok
     /\ ~ConfigDirectoryInClone(world, repository.config_directory))
    => gitStatus = 404

\* C11: whenever the project configuration has been read, the directory it was
\* read from is <clone dir>/<config_directory> of the descriptor, and no other
\* directory of the clone.
C11_ProjectReadFromConfigDirectory ==
    projectDir # NoDirectory =>
        projectDir = JoinPath(TempDir, repository.config_directory)


\* C12: once the AppConfiguration is being constructed, every declared
\* variable whose name starts with the marker is the field named by the rest
\* of its name after that prefix, with its declared value, and is not in env;
\* every other declared variable is in env under its own name with its value.
C12_ExtractionPartitionsVariables ==
    extractPc = "built" =>
        LET env == app_config_kwargs[<<"env">>].map
        IN  \A i \in DOMAIN conda_project_variables :
                LET k == conda_project_variables[i].name
                    v == conda_project_variables[i].value
                IN  IF StartsWithMarker(k)
                    THEN /\ Tail(k) \in DOMAIN app_config_kwargs
                         /\ app_config_kwargs[Tail(k)] = Str(v)
                         /\ k \notin DOMAIN env
                    ELSE /\ k \in DOMAIN env
                         /\ env[k] = v

====
